---- MODULE Spec2Model ----
(***************************************************************************)
(* Model of the changelog webhook agent (agentuity/agent-changelog).       *)
(*                                                                         *)
(* One invocation of ChangelogAgent is a sequence of steps, one per await  *)
(* of the handler: signature check, body parse, classification            *)
(* (generateObject), ledger lookup (ctx.kv.get), prompt synthesis          *)
(* (generateText), dispatch (callDevinAPI), ledger write (ctx.kv.set).     *)
(* Invocations share only the key-value ledger.  The external services     *)
(* (the two language models, the Devin endpoint, the key-value store) are  *)
(* nondeterministic: each call returns one of its possible answers or      *)
(* throws.                                                                 *)
(***************************************************************************)
EXTENDS Integers, Sequences, FiniteSets, TLC

VARIABLES
    env,            \* process.env: AGENTUITY_ENVIRONMENT, GITHUB_WEBHOOK_SECRET
    kv,             \* the "agent-changelog-processed-events" namespace: key -> value
    pc,             \* per invocation slot: the await the handler is standing at
    req,            \* per slot: the inbound request (signature header, body)
    analysis,       \* per slot: the object generateObject returned
    eventKey,       \* per slot: generateEventKey(...) of the analysis
    devinPrompt,    \* per slot: the text generateText returned
    devinResponse,  \* per slot: what callDevinAPI returned
    responses,      \* per slot: the resp.json(...) values returned to the caller
    log,            \* per slot: the external calls made so far, in order
    kv0,            \* per slot: the ledger as it was when the delivery arrived
    delivered,      \* number of deliveries received so far (also the clock)
    dispatchCalls,  \* event key -> number of callDevinAPI invocations for it
    arrivals,       \* event key -> number of deliveries received while the
                    \* ledger held no entry for the key
    fetched,        \* per slot: the answer fetch got from the Devin endpoint
    ended,          \* <<event key, ending>> of the invocations that ended in
                    \* an error of generateText or callDevinAPI ("failed") or
                    \* in a success response ("success")
    promptVersion   \* per slot: the version the prompt given to generateText names

vars == <<env, kv, pc, req, analysis, eventKey, devinPrompt, devinResponse,
          responses, log, kv0, delivered, dispatchCalls, arrivals, fetched,
          ended, promptVersion>>

----------------------------------------------------------------------------
(* Bounds of the model *)

\* number of invocation slots (concurrent invocations of the handler)
NumProcs == 2
\* number of deliveries in one behaviour of Spec (one after the other)
MaxDeliveries == 2
\* number of deliveries in one behaviour of SpecRace (overlapping)
RaceDeliveries == 3

Procs == 1..NumProcs

----------------------------------------------------------------------------
(* Values *)

\* JavaScript's undefined, for string-valued places
Undefined == "undefined"

\* const SUPPORTED_REPOSITORIES
SUPPORTED_REPOSITORIES ==
    { [name |-> "cli",    url |-> "https://github.com/agentuity/cli",    type |-> "CLI Tool"],
      [name |-> "sdk-js", url |-> "https://github.com/agentuity/sdk-js", type |-> "JavaScript SDK"],
      [name |-> "sdk-py", url |-> "https://github.com/agentuity/sdk-py", type |-> "Python SDK"] }

\* the shared secret GitHub signs with
TrustedSecret == "github-secret"

\* process.env values the model starts from
EnvValues == {"development", "production", Undefined}
SecretValues == {TrustedSecret, Undefined}

\* Bodies of inbound requests.  kind "json" is a JSON document, of which the
\* handler reads the top-level member "payload" and its member "action";
\* GitHub puts a release event's action in the top-level member "action".
\* kind "empty" is an empty body (no JSON document).
NoPayload == [defined |-> FALSE, action |-> Undefined]
PayloadObjects == {NoPayload, [defined |-> TRUE, action |-> "published"]}
TopActions == {"published", "edited"}
JsonBodies == [kind : {"json"}, action : TopActions, payload : PayloadObjects]
EmptyBody == [kind |-> "empty", action |-> Undefined, payload |-> NoPayload]
Bodies == JsonBodies \cup {EmptyBody}

\* a body as GitHub sends it: the action at the top level, no "payload" member
IsGitHubShaped(body) == body.kind = "json" /\ ~body.payload.defined

\* sign(secret, payload) of @octokit/webhooks-methods: the value of the
\* x-hub-signature-256 header for a payload; distinct (secret, payload) pairs
\* give distinct digests
Sign(secret, text) == <<"sha256=", secret, text>>
NoSignature == <<>>

\* the signature headers that may come with a body: none, GitHub's for this
\* body, GitHub's for the body as it was before it was tampered with
Tampered(body) == [body EXCEPT !.action = IF @ = "published" THEN "edited" ELSE "published"]
HeadersFor(body) ==
    { NoSignature, Sign(TrustedSecret, body), Sign(TrustedSecret, Tampered(body)) }
Requests ==
    UNION {{[signature |-> h, body |-> b] : h \in HeadersFor(b)} : b \in Bodies}

\* version strings: a core and an optional pre-release suffix
VersionCores == {"v1.4.0"}
VersionSuffixes == {"", "-next"}
Versions == {c \o s : c \in VersionCores, s \in VersionSuffixes}
ContainsNext(v) == \E c \in VersionCores : v = c \o "-next"

\* const WebhookAnalysisSchema: the objects generateObject may return
EventTypes == {"release", "tag", "other"}
RepositoryNames == {"sdk-js"}
WebhookAnalysisSchema ==
    [isReleaseOrTagEvent : BOOLEAN, eventType : EventTypes,
     repositoryName : RepositoryNames, version : Versions,
     reasoning : {"analysis reasoning"}, isSupported : BOOLEAN]
\* the analyses the classifier gives in the model: any object of the schema,
\* except that an event it types "other" is not flagged as a release or tag
Analyses ==
    {a \in WebhookAnalysisSchema : a.eventType = "other" => ~a.isReleaseOrTagEvent}
NoAnalysis ==
    [isReleaseOrTagEvent |-> FALSE, eventType |-> Undefined,
     repositoryName |-> Undefined, version |-> Undefined,
     reasoning |-> Undefined, isSupported |-> FALSE]

\* texts generateText may return: a prompt, or no text at all
PromptTexts == {"devin prompt", ""}

\* answers of the Devin endpoint: HTTP status, body text, sessionId member
\* and a fetch that fails before any answer arrives
DevinReplies ==
    { [kind |-> "response", status |-> 200, text |-> "ok", sessionId |-> "devin-1"],
      [kind |-> "response", status |-> 200, text |-> "ok", sessionId |-> Undefined],
      [kind |-> "response", status |-> 200, text |-> "ok", sessionId |-> ""],
      [kind |-> "response", status |-> 500, text |-> "Internal Server Error",
       sessionId |-> Undefined],
      [kind |-> "network-error", status |-> 0, text |-> "fetch failed",
       sessionId |-> Undefined] }
NoDevinResponse == [sessionId |-> Undefined, status |-> 0]
NoReply == [kind |-> Undefined, status |-> 0, text |-> Undefined, sessionId |-> Undefined]

NoRequest == [signature |-> NoSignature, body |-> EmptyBody]
EmptyStore == [k \in {} |-> Undefined]
NoCalls == [k \in {} |-> 0]

----------------------------------------------------------------------------
(* Pure functions of the source *)

\* verify(secret, payload, signature) of @octokit/webhooks-methods: it throws
\* when one of its arguments is empty, and otherwise compares the signature
\* with sign(secret, payload)
verifyThrows(secret, body, signature) == body.kind = "empty"
verify(secret, body, signature) == Sign(secret, body) = signature

\* what an invalid signature would do if the isValid test were dropped
verifyGitHubWebhook_AcceptsInvalid(signature, webhookSecret, body) ==
    IF signature = NoSignature
    THEN [success |-> FALSE, message |-> "Missing X-Hub-Signature-256 header"]
    ELSE IF webhookSecret = Undefined
    THEN [success |-> FALSE,
          message |-> "Server configuration error: webhook secret not configured"]
    ELSE IF verifyThrows(webhookSecret, body, signature)
    THEN [success |-> FALSE, message |-> "Error verifying webhook signature"]
    ELSE [success |-> TRUE, message |-> Undefined]

\* verifyGitHubWebhook with the secret looked at before the header
verifyGitHubWebhook_SecretFirst(signature, webhookSecret, body) ==
    IF webhookSecret = Undefined
    THEN [success |-> FALSE,
          message |-> "Server configuration error: webhook secret not configured"]
    ELSE IF signature = NoSignature
    THEN [success |-> FALSE, message |-> "Missing X-Hub-Signature-256 header"]
    ELSE IF verifyThrows(webhookSecret, body, signature)
    THEN [success |-> FALSE, message |-> "Error verifying webhook signature"]
    ELSE IF ~verify(webhookSecret, body, signature)
    THEN [success |-> FALSE, message |-> "Invalid webhook signature"]
    ELSE [success |-> TRUE, message |-> Undefined]

\* verifyGitHubWebhook(req, ctx), as a function of the header, the secret
\* and the raw body
verifyGitHubWebhook(signature, webhookSecret, body) ==
    IF signature = NoSignature
    THEN [success |-> FALSE, message |-> "Missing X-Hub-Signature-256 header"]
    ELSE IF webhookSecret = Undefined
    THEN [success |-> FALSE,
          message |-> "Server configuration error: webhook secret not configured"]
    ELSE IF verifyThrows(webhookSecret, body, signature)
    THEN [success |-> FALSE, message |-> "Error verifying webhook signature"]
    ELSE IF ~verify(webhookSecret, body, signature)
    THEN [success |-> FALSE, message |-> "Invalid webhook signature"]
    ELSE [success |-> TRUE, message |-> Undefined]

\* generateEventKey with a placeholder put in for an empty version
generateEventKey_DefaultsVersion(repositoryName, version, eventType) ==
    "changelog-event:" \o repositoryName \o ":"
        \o (IF version = "" THEN "unknown" ELSE version) \o ":" \o eventType

\* generateEventKey(repositoryName, version, eventType)
generateEventKey(repositoryName, version, eventType) ==
    "changelog-event:" \o repositoryName \o ":" \o version \o ":" \o eventType

\* a || b on strings: b when a is undefined or empty
OrElse(a, b) == IF a \in {Undefined, ""} THEN b ELSE a

\* response.ok of fetch
ResponseOk(status) == status >= 200 /\ status <= 299

\* callDevinAPI without the default for a missing sessionId
callDevinAPI_NoSentinel(reply) ==
    IF reply.kind = "network-error"
    THEN [threw |-> TRUE, message |-> "Failed to call Devin API: " \o reply.text,
          sessionId |-> Undefined, status |-> 0]
    ELSE IF ~ResponseOk(reply.status)
    THEN [threw |-> TRUE,
          message |-> "Failed to call Devin API: Devin API returned "
                        \o ToString(reply.status) \o ": " \o reply.text,
          sessionId |-> Undefined, status |-> reply.status]
    ELSE [threw |-> FALSE, message |-> Undefined,
          sessionId |-> reply.sessionId, status |-> reply.status]

\* callDevinAPI(prompt, ctx), as a function of the endpoint's answer: the
\* value it returns, or the Error it throws
callDevinAPI(reply) ==
    IF reply.kind = "network-error"
    THEN [threw |-> TRUE, message |-> "Failed to call Devin API: " \o reply.text,
          sessionId |-> Undefined, status |-> 0]
    ELSE IF ~ResponseOk(reply.status)
    THEN [threw |-> TRUE,
          message |-> "Failed to call Devin API: Devin API returned "
                        \o ToString(reply.status) \o ": " \o reply.text,
          sessionId |-> Undefined, status |-> reply.status]
    ELSE [threw |-> FALSE, message |-> Undefined,
          sessionId |-> OrElse(reply.sessionId, "unknown"), status |-> reply.status]

\* the early-return test after classification with the support flag left out
PassesClassificationGate_IgnoresSupport(a) == a.isReleaseOrTagEvent

\* the negation of the early-return test
\*   if (!analysis.isReleaseOrTagEvent || !analysis.isSupported)
PassesClassificationGate(a) == a.isReleaseOrTagEvent /\ a.isSupported

\* kvEventStore.exists with the lookup result ignored
existingEvent_AlwaysFalse(store, key) == FALSE

\* kvEventStore.exists of ctx.kv.get(namespace, key)
existingEvent(store, key) == key \in DOMAIN store

\* payload?.action of the parsed body
payloadAction(body) == IF body.payload.defined THEN body.payload.action ELSE Undefined

\* the version line of the prompt given to generateText:
\*   Version: ${analysis.version || "unknown - figure it out"}
versionInPrompt(a) == OrElse(a.version, "unknown - figure it out")

\* the value ctx.kv.set stores for an event
ProcessedEvent(a, now, sessionId) ==
    [repository |-> a.repositoryName, version |-> a.version,
     eventType |-> a.eventType, processedAt |-> now, devinSessionId |-> sessionId]

Count(f, k) == IF k \in DOMAIN f THEN f[k] ELSE 0

\* the event keys of the analyses of the model
AllKeys ==
    {generateEventKey(a.repositoryName, a.version, a.eventType) : a \in Analyses}

----------------------------------------------------------------------------
(* The handler, ChangelogAgent, one action per await *)

Init ==
    /\ env \in [AGENTUITY_ENVIRONMENT : EnvValues, GITHUB_WEBHOOK_SECRET : SecretValues]
    /\ kv = EmptyStore
    /\ pc = [p \in Procs |-> "idle"]
    /\ req = [p \in Procs |-> NoRequest]
    /\ analysis = [p \in Procs |-> NoAnalysis]
    /\ eventKey = [p \in Procs |-> Undefined]
    /\ devinPrompt = [p \in Procs |-> Undefined]
    /\ devinResponse = [p \in Procs |-> NoDevinResponse]
    /\ responses = [p \in Procs |-> <<>>]
    /\ log = [p \in Procs |-> <<>>]
    /\ kv0 = [p \in Procs |-> EmptyStore]
    /\ delivered = 0
    /\ dispatchCalls = NoCalls
    /\ arrivals = [k \in AllKeys |-> 0]
    /\ fetched = [p \in Procs |-> NoReply]
    /\ ended = {}
    /\ promptVersion = [p \in Procs |-> Undefined]

\* an external call of invocation p, with its outcome
Called(p, call, outcome) == log' = [log EXCEPT ![p] = Append(@, <<call, outcome>>)]

\* return resp.json(json)
Respond(p, json) ==
    /\ responses' = [responses EXCEPT ![p] = Append(@, json)]
    /\ pc' = [pc EXCEPT ![p] = "done"]

\* a catch clause that lets the error go on to the hosting environment
Caught_Rethrows(p, errorMessage) ==
    /\ pc' = [pc EXCEPT ![p] = "faulted"]
    /\ UNCHANGED responses

\* the catch clause of ChangelogAgent
Caught(p, errorMessage) ==
    Respond(p, [status |-> "error", message |-> errorMessage])

\* the hosting environment hands a delivery to the handler; the invocation
\* takes the first free slot
Receive(p, requests, limit) ==
    /\ pc[p] = "idle"
    /\ \A q \in Procs : q < p => pc[q] # "idle"
    /\ delivered < limit
    /\ \E r \in requests : req' = [req EXCEPT ![p] = r]
    /\ kv0' = [kv0 EXCEPT ![p] = kv]
    /\ delivered' = delivered + 1
    /\ arrivals' = [k \in AllKeys |->
                        IF k \in DOMAIN kv THEN arrivals[k] ELSE arrivals[k] + 1]
    /\ pc' = [pc EXCEPT ![p] = "verify"]
    /\ UNCHANGED <<env, promptVersion, fetched, ended, kv, analysis, eventKey, devinPrompt, devinResponse,
                   responses, log, dispatchCalls>>

\* the signature gate skipped whenever the environment is not "production"
Verify_BypassUnlessProduction(p) ==
    /\ pc[p] = "verify"
    /\ IF env.AGENTUITY_ENVIRONMENT # "production"
       THEN /\ pc' = [pc EXCEPT ![p] = "object"]
            /\ UNCHANGED <<responses, log>>
       ELSE LET verificationResult ==
                    verifyGitHubWebhook(req[p].signature, env.GITHUB_WEBHOOK_SECRET,
                                        req[p].body)
            IN  IF ~verificationResult.success
                THEN /\ Called(p, "verifyGitHubWebhook", "fail")
                     /\ Respond(p, [status |-> "error",
                                    message |-> OrElse(verificationResult.message,
                                                       "Unknown verification error")])
                ELSE /\ Called(p, "verifyGitHubWebhook", "ok")
                     /\ pc' = [pc EXCEPT ![p] = "object"]
                     /\ UNCHANGED responses
    /\ UNCHANGED <<env, promptVersion, fetched, ended, kv, req, analysis, eventKey, devinPrompt, devinResponse,
                   kv0, delivered, dispatchCalls, arrivals>>

\* the signature gate
Verify(p) ==
    /\ pc[p] = "verify"
    /\ IF env.AGENTUITY_ENVIRONMENT = "development"
       THEN /\ pc' = [pc EXCEPT ![p] = "object"]
            /\ UNCHANGED <<responses, log>>
       ELSE LET verificationResult ==
                    verifyGitHubWebhook(req[p].signature, env.GITHUB_WEBHOOK_SECRET,
                                        req[p].body)
            IN  IF ~verificationResult.success
                THEN /\ Called(p, "verifyGitHubWebhook", "fail")
                     /\ Respond(p, [status |-> "error",
                                    message |-> OrElse(verificationResult.message,
                                                       "Unknown verification error")])
                ELSE /\ Called(p, "verifyGitHubWebhook", "ok")
                     /\ pc' = [pc EXCEPT ![p] = "object"]
                     /\ UNCHANGED responses
    /\ UNCHANGED <<env, promptVersion, fetched, ended, kv, req, analysis, eventKey, devinPrompt, devinResponse,
                   kv0, delivered, dispatchCalls, arrivals>>

\* const { payload } = await req.data.object()
ParseBody(p) ==
    /\ pc[p] = "object"
    /\ IF req[p].body.kind # "json"
       THEN /\ Called(p, "req.data.object", "throw")
            /\ Caught(p, "Unexpected end of JSON input")
       ELSE /\ Called(p, "req.data.object", "ok")
            /\ pc' = [pc EXCEPT ![p] = "generateObject"]
            /\ UNCHANGED responses
    /\ UNCHANGED <<env, promptVersion, fetched, ended, kv, req, analysis, eventKey, devinPrompt, devinResponse,
                   kv0, delivered, dispatchCalls, arrivals>>

\* generateObject throws
ClassifyThrows(p) ==
    /\ pc[p] = "generateObject"
    /\ Called(p, "generateObject", "throw")
    /\ Caught(p, "generateObject failed")
    /\ UNCHANGED <<env, promptVersion, fetched, ended, kv, req, analysis, eventKey, devinPrompt, devinResponse,
                   kv0, delivered, dispatchCalls, arrivals>>

\* the classification step going straight on to synthesis, without the lookup
Classify_SkipsLookup(p, outs) ==
    /\ pc[p] = "generateObject"
    /\ Called(p, "generateObject", "ok")
    /\ \E a \in outs :
          /\ analysis' = [analysis EXCEPT ![p] = a]
          /\ IF ~PassesClassificationGate(a)
             THEN /\ Respond(p, [status |-> "ignored", reason |-> a.reasoning])
                  /\ UNCHANGED eventKey
             ELSE /\ eventKey' = [eventKey EXCEPT ![p] =
                        generateEventKey(a.repositoryName, a.version, a.eventType)]
                  /\ pc' = [pc EXCEPT ![p] = "generateText"]
                  /\ UNCHANGED responses
    /\ UNCHANGED <<env, promptVersion, fetched, ended, kv, req, devinPrompt, devinResponse, kv0, delivered,
                   dispatchCalls, arrivals>>

\* the classification step with the key derived from the reasoning as well
Classify_KeysByReasoning(p, outs) ==
    /\ pc[p] = "generateObject"
    /\ Called(p, "generateObject", "ok")
    /\ \E a \in outs :
          /\ analysis' = [analysis EXCEPT ![p] = a]
          /\ IF ~PassesClassificationGate(a)
             THEN /\ Respond(p, [status |-> "ignored", reason |-> a.reasoning])
                  /\ UNCHANGED eventKey
             ELSE /\ eventKey' = [eventKey EXCEPT ![p] =
                        generateEventKey(a.repositoryName,
                                         a.version \o "/" \o a.reasoning, a.eventType)]
                  /\ pc' = [pc EXCEPT ![p] = "kv.get"]
                  /\ UNCHANGED responses
    /\ UNCHANGED <<env, promptVersion, fetched, ended, kv, req, devinPrompt, devinResponse, kv0, delivered,
                   dispatchCalls, arrivals>>

\* generateObject returns an analysis; the early return when the event is
\* not a release or tag event or the repository is not supported
Classify(p, outs) ==
    /\ pc[p] = "generateObject"
    /\ Called(p, "generateObject", "ok")
    /\ \E a \in outs :
          /\ analysis' = [analysis EXCEPT ![p] = a]
          /\ IF ~PassesClassificationGate(a)
             THEN /\ Respond(p, [status |-> "ignored", reason |-> a.reasoning])
                  /\ UNCHANGED eventKey
             ELSE /\ eventKey' = [eventKey EXCEPT ![p] =
                        generateEventKey(a.repositoryName, a.version, a.eventType)]
                  /\ pc' = [pc EXCEPT ![p] = "kv.get"]
                  /\ UNCHANGED responses
    /\ UNCHANGED <<env, promptVersion, fetched, ended, kv, req, devinPrompt, devinResponse, kv0, delivered,
                   dispatchCalls, arrivals>>

\* a failed lookup taken as "no entry": the handler goes on to synthesis
KvGetThrows_TakenAsAbsent(p) ==
    /\ pc[p] = "kv.get"
    /\ Called(p, "kv.get", "throw")
    /\ pc' = [pc EXCEPT ![p] = "generateText"]
    /\ UNCHANGED <<env, promptVersion, fetched, ended, kv, req, analysis, eventKey, devinPrompt, devinResponse,
                   kv0, delivered, dispatchCalls, arrivals, responses>>

\* a failed lookup that is never answered: the invocation stays at the await
KvGetThrows_Hangs(p) ==
    /\ pc[p] = "kv.get"
    /\ Called(p, "kv.get", "throw")
    /\ pc' = [pc EXCEPT ![p] = "hung"]
    /\ UNCHANGED <<env, promptVersion, fetched, ended, kv, req, analysis, eventKey, devinPrompt, devinResponse,
                   kv0, delivered, dispatchCalls, arrivals, responses>>

\* ctx.kv.get throws
KvGetThrows(p) ==
    /\ pc[p] = "kv.get"
    /\ Called(p, "kv.get", "throw")
    /\ Caught(p, "kv.get failed")
    /\ UNCHANGED <<env, promptVersion, fetched, ended, kv, req, analysis, eventKey, devinPrompt, devinResponse,
                   kv0, delivered, dispatchCalls, arrivals>>

\* ctx.kv.get returns; the duplicate check, then the published check
KvGet(p) ==
    /\ pc[p] = "kv.get"
    /\ Called(p, "kv.get", "ok")
    /\ IF existingEvent(kv, eventKey[p])
       THEN Respond(p, [status |-> "already_processed",
                        repository |-> analysis[p].repositoryName,
                        eventType |-> analysis[p].eventType,
                        version |-> analysis[p].version,
                        message |-> "This event has already been processed"])
       ELSE IF analysis[p].eventType = "release"
               /\ payloadAction(req[p].body) # "published"
       THEN Respond(p, [status |-> "ignored",
                        reason |-> "Only published releases are processed"])
       ELSE /\ pc' = [pc EXCEPT ![p] = "generateText"]
            /\ UNCHANGED responses
    /\ UNCHANGED <<env, promptVersion, fetched, ended, kv, req, analysis, eventKey, devinPrompt, devinResponse,
                   kv0, delivered, dispatchCalls, arrivals>>

\* generateText throws
GenerateTextThrows(p) ==
    /\ pc[p] = "generateText"
    /\ Called(p, "generateText", "throw")
    /\ Caught(p, "generateText failed")
    /\ promptVersion' = [promptVersion EXCEPT ![p] = versionInPrompt(analysis[p])]
    /\ ended' = ended \cup {<<eventKey[p], "failed">>}
    /\ UNCHANGED <<env, fetched, kv, req, analysis, eventKey, devinPrompt, devinResponse,
                   kv0, delivered, dispatchCalls, arrivals>>

\* generateText returns the prompt for Devin
GenerateText(p, texts) ==
    /\ pc[p] = "generateText"
    /\ Called(p, "generateText", "ok")
    /\ \E text \in texts : devinPrompt' = [devinPrompt EXCEPT ![p] = text]
    /\ promptVersion' = [promptVersion EXCEPT ![p] = versionInPrompt(analysis[p])]
    /\ pc' = [pc EXCEPT ![p] = "callDevinAPI"]
    /\ UNCHANGED <<env, fetched, ended, kv, req, analysis, eventKey, devinResponse, responses,
                   kv0, delivered, dispatchCalls, arrivals>>

\* the dispatch with the ledger write moved ahead of it
CallDevin_RecordsFirst(p, replies) ==
    /\ pc[p] = "callDevinAPI"
    /\ dispatchCalls' = (eventKey[p] :> (Count(dispatchCalls, eventKey[p]) + 1))
                            @@ dispatchCalls
    /\ kv' = (eventKey[p] :> ProcessedEvent(analysis[p], delivered, "pending")) @@ kv
    /\ \E reply \in replies :
          LET result == callDevinAPI(reply)
          IN  /\ fetched' = [fetched EXCEPT ![p] = reply]
              /\ IF result.threw
                 THEN /\ Called(p, "callDevinAPI", "throw")
                      /\ Caught(p, result.message)
                      /\ ended' = ended \cup {<<eventKey[p], "failed">>}
                      /\ UNCHANGED devinResponse
                 ELSE /\ Called(p, "callDevinAPI", "ok")
                      /\ devinResponse' = [devinResponse EXCEPT ![p] =
                             [sessionId |-> result.sessionId, status |-> result.status]]
                      /\ pc' = [pc EXCEPT ![p] = "kv.set"]
                      /\ UNCHANGED <<responses, ended>>
    /\ UNCHANGED <<env, promptVersion, req, analysis, eventKey, devinPrompt, kv0, delivered,
                   arrivals>>

\* const devinResponse = await callDevinAPI(devinPrompt, ctx)
CallDevin(p, replies) ==
    /\ pc[p] = "callDevinAPI"
    /\ dispatchCalls' = (eventKey[p] :> (Count(dispatchCalls, eventKey[p]) + 1))
                            @@ dispatchCalls
    /\ \E reply \in replies :
          LET result == callDevinAPI(reply)
          IN  /\ fetched' = [fetched EXCEPT ![p] = reply]
              /\ IF result.threw
                 THEN /\ Called(p, "callDevinAPI", "throw")
                      /\ Caught(p, result.message)
                      /\ ended' = ended \cup {<<eventKey[p], "failed">>}
                      /\ UNCHANGED devinResponse
                 ELSE /\ Called(p, "callDevinAPI", "ok")
                      /\ devinResponse' = [devinResponse EXCEPT ![p] =
                             [sessionId |-> result.sessionId, status |-> result.status]]
                      /\ pc' = [pc EXCEPT ![p] = "kv.set"]
                      /\ UNCHANGED <<responses, ended>>
    /\ UNCHANGED <<env, promptVersion, kv, req, analysis, eventKey, devinPrompt, kv0, delivered,
                   arrivals>>

\* ctx.kv.set throws
KvSetThrows(p) ==
    /\ pc[p] = "kv.set"
    /\ Called(p, "kv.set", "throw")
    /\ Caught(p, "kv.set failed")
    /\ UNCHANGED <<env, promptVersion, fetched, ended, kv, req, analysis, eventKey, devinPrompt, devinResponse,
                   kv0, delivered, dispatchCalls, arrivals>>

\* a ledger write that replaces the whole namespace by the one entry
KvSet_ReplacesStore(p) ==
    /\ pc[p] = "kv.set"
    /\ Called(p, "kv.set", "ok")
    /\ kv' = (eventKey[p] :> ProcessedEvent(analysis[p], delivered,
                                             devinResponse[p].sessionId))
    /\ Respond(p, [status |-> "success",
                   repository |-> analysis[p].repositoryName,
                   eventType |-> analysis[p].eventType,
                   version |-> analysis[p].version,
                   devinSessionId |-> devinResponse[p].sessionId])
    /\ ended' = ended \cup {<<eventKey[p], "success">>}
    /\ UNCHANGED <<env, promptVersion, fetched, req, analysis, eventKey, devinPrompt, devinResponse,
                   kv0, delivered, dispatchCalls, arrivals>>

\* ctx.kv.set stores the event, and the handler answers success
KvSet(p) ==
    /\ pc[p] = "kv.set"
    /\ Called(p, "kv.set", "ok")
    /\ kv' = (eventKey[p] :> ProcessedEvent(analysis[p], delivered,
                                             devinResponse[p].sessionId)) @@ kv
    /\ Respond(p, [status |-> "success",
                   repository |-> analysis[p].repositoryName,
                   eventType |-> analysis[p].eventType,
                   version |-> analysis[p].version,
                   devinSessionId |-> devinResponse[p].sessionId])
    /\ ended' = ended \cup {<<eventKey[p], "success">>}
    /\ UNCHANGED <<env, promptVersion, fetched, req, analysis, eventKey, devinPrompt, devinResponse,
                   kv0, delivered, dispatchCalls, arrivals>>

\* the hosting environment has sent the response; the slot is free again
Complete(p) ==
    /\ pc[p] = "done"
    /\ pc' = [pc EXCEPT ![p] = "idle"]
    /\ req' = [req EXCEPT ![p] = NoRequest]
    /\ analysis' = [analysis EXCEPT ![p] = NoAnalysis]
    /\ eventKey' = [eventKey EXCEPT ![p] = Undefined]
    /\ devinPrompt' = [devinPrompt EXCEPT ![p] = Undefined]
    /\ devinResponse' = [devinResponse EXCEPT ![p] = NoDevinResponse]
    /\ responses' = [responses EXCEPT ![p] = <<>>]
    /\ log' = [log EXCEPT ![p] = <<>>]
    /\ kv0' = [kv0 EXCEPT ![p] = EmptyStore]
    /\ fetched' = [fetched EXCEPT ![p] = NoReply]
    /\ promptVersion' = [promptVersion EXCEPT ![p] = Undefined]
    /\ UNCHANGED <<env, ended, kv, delivered, dispatchCalls, arrivals>>

\* deliveries arrive one after the other: a delivery begins when no other
\* invocation is in progress
ReceiveNext(p) ==
    /\ \A q \in Procs : pc[q] = "idle"
    /\ Receive(p, Requests, MaxDeliveries)

Next ==
    \E p \in Procs :
        \/ ReceiveNext(p)
        \/ Verify(p)
        \/ ParseBody(p)
        \/ ClassifyThrows(p)
        \/ Classify(p, Analyses)
        \/ KvGetThrows(p)
        \/ KvGet(p)
        \/ GenerateTextThrows(p)
        \/ GenerateText(p, PromptTexts)
        \/ CallDevin(p, DevinReplies)
        \/ KvSetThrows(p)
        \/ KvSet(p)
        \/ Complete(p)

Spec == Init /\ [][Next]_vars

----------------------------------------------------------------------------
(* Overlapping invocations: the hosting environment starts a delivery while *)
(* others are in progress.  The deliveries are signed tag events of one     *)
(* repository, in production configuration; the classifier, the ledger      *)
(* lookup and the synthesizer answer, the Devin endpoint answers 200 with   *)
(* or without a sessionId, and the ledger write succeeds or throws.         *)

RaceRequests ==
    {r \in Requests :
        /\ IsGitHubShaped(r.body) /\ r.body.action = "published"
        /\ r.signature = Sign(TrustedSecret, r.body)}
RaceAnalyses ==
    {a \in Analyses :
        a.eventType = "tag" /\ a.isSupported /\ a.isReleaseOrTagEvent}
RaceReplies == {r \in DevinReplies : r.status = 200 /\ r.sessionId # ""}
RaceTexts == {t \in PromptTexts : t # ""}

InitRace ==
    /\ Init
    /\ env = [AGENTUITY_ENVIRONMENT |-> "production",
              GITHUB_WEBHOOK_SECRET |-> TrustedSecret]

NextRace ==
    \E p \in Procs :
        \/ Receive(p, RaceRequests, RaceDeliveries)
        \/ Verify(p)
        \/ ParseBody(p)
        \/ Classify(p, RaceAnalyses)
        \/ KvGet(p)
        \/ GenerateText(p, RaceTexts)
        \/ CallDevin(p, RaceReplies)
        \/ KvSetThrows(p)
        \/ KvSet(p)
        \/ Complete(p)

SpecRace == InitRace /\ [][NextRace]_vars

----------------------------------------------------------------------------
(* Key derivation: the handler up to generateEventKey, for analyses that    *)
(* differ in every field the classifier fills in.  Each slot takes one      *)
(* signed delivery; the classifier names any supported repository, either   *)
(* version, a release or a tag, with one of two reasonings; the bodies      *)
(* differ in their "payload" member.  The handler derives a key only for an *)
(* analysis with both flags set, so the flags are set in all of them.       *)

KeyRequests ==
    {r \in Requests :
        /\ r.body.kind = "json" /\ r.body.action = "published"
        /\ r.signature = Sign(TrustedSecret, r.body)}
KeyAnalyses ==
    [isReleaseOrTagEvent : {TRUE}, eventType : {"release", "tag"},
     repositoryName : {"cli", "sdk-js"}, version : Versions,
     reasoning : {"analysis reasoning", "another reasoning"}, isSupported : {TRUE}]

InitKey ==
    /\ Init
    /\ env = [AGENTUITY_ENVIRONMENT |-> "production",
              GITHUB_WEBHOOK_SECRET |-> TrustedSecret]

NextKey ==
    \E p \in Procs :
        \/ Receive(p, KeyRequests, NumProcs)
        \/ Verify(p)
        \/ ParseBody(p)
        \/ Classify(p, KeyAnalyses)

SpecKey == InitKey /\ [][NextKey]_vars

----------------------------------------------------------------------------
(* Events of many names: deliveries made one after the other, signed, in    *)
(* production configuration, every external call working.  The classifier   *)
(* fills repositoryName and version with any string (the schema asks for    *)
(* z.string()): names and versions with and without a colon, and the empty  *)
(* version of an event whose version it could not extract.                  *)

EventRepositoryNames == {"cli", "cli:v2"}
EventVersions == {"", "1.0", "v2:1.0"}
EventAnalyses ==
    [isReleaseOrTagEvent : {TRUE}, eventType : {"release", "tag"},
     repositoryName : EventRepositoryNames, version : EventVersions,
     reasoning : {"analysis reasoning"}, isSupported : {TRUE}]
EventReplies == {r \in DevinReplies : r.status = 200 /\ r.sessionId = "devin-1"}

\* a signed delivery begins when no other invocation is in progress
ReceiveSigned(p) ==
    /\ \A q \in Procs : pc[q] = "idle"
    /\ Receive(p, KeyRequests, MaxDeliveries)

NextEvents ==
    \E p \in Procs :
        \/ ReceiveSigned(p)
        \/ Verify(p)
        \/ ParseBody(p)
        \/ Classify(p, EventAnalyses)
        \/ KvGet(p)
        \/ GenerateText(p, RaceTexts)
        \/ CallDevin(p, EventReplies)
        \/ KvSet(p)
        \/ Complete(p)

SpecEvents == InitKey /\ [][NextEvents]_vars

----------------------------------------------------------------------------
(* Progress: overlapping invocations in which every external call may      *)
(* return or fail, and every call that was made eventually does one of the  *)
(* two.  The deliveries are a signed and an unsigned request; the           *)
(* classifier answers with a supported or an unsupported tag event of one   *)
(* version; the Devin endpoint answers 200 or 500.                          *)

\* number of deliveries in one behaviour of SpecLive (overlapping)
LiveDeliveries == 2

LiveRequests ==
    {r \in Requests :
        /\ IsGitHubShaped(r.body) /\ r.body.action = "published"
        /\ r.signature \in {NoSignature, Sign(TrustedSecret, r.body)}}
LiveAnalyses ==
    {a \in Analyses :
        /\ a.eventType = "tag" /\ a.isReleaseOrTagEvent
        /\ ~ContainsNext(a.version)}
LiveReplies == {r \in DevinReplies : r.kind = "response" /\ r.sessionId = Undefined}

InitLive ==
    /\ Init
    /\ env = [AGENTUITY_ENVIRONMENT |-> "production",
              GITHUB_WEBHOOK_SECRET |-> TrustedSecret]

\* the step of invocation p that ends the await it is standing at
LiveStep(p) ==
    \/ Verify(p)
    \/ ParseBody(p)
    \/ ClassifyThrows(p)
    \/ Classify(p, LiveAnalyses)
    \/ KvGetThrows(p)
    \/ KvGet(p)
    \/ GenerateTextThrows(p)
    \/ GenerateText(p, RaceTexts)
    \/ CallDevin(p, LiveReplies)
    \/ KvSetThrows(p)
    \/ KvSet(p)

NextLive ==
    \E p \in Procs :
        \/ Receive(p, LiveRequests, LiveDeliveries)
        \/ LiveStep(p)
        \/ Complete(p)

\* every external call eventually returns or fails: an invocation standing
\* at an await eventually takes its step
LiveFairness == \A p \in Procs : WF_vars(LiveStep(p))

SpecLive == InitLive /\ [][NextLive]_vars /\ LiveFairness

----------------------------------------------------------------------------
(* Vocabulary of the properties *)

Done(p) == pc[p] = "done"
Did(p, call) == \E i \in DOMAIN log[p] : log[p][i][1] = call
DidOk(p, call) == \E i \in DOMAIN log[p] : log[p][i] = <<call, "ok">>
Failed(p) == \E i \in DOMAIN log[p] : log[p][i][2] \in {"throw", "fail"}
LastCall(p) == log[p][Len(log[p])]
Answered(p, status) == Len(responses[p]) = 1 /\ responses[p][1].status = status
Statuses == {"success", "ignored", "already_processed", "error"}

BypassActive == env.AGENTUITY_ENVIRONMENT = "development"
SignatureMatches(p) ==
    /\ req[p].signature # NoSignature
    /\ env.GITHUB_WEBHOOK_SECRET # Undefined
    /\ req[p].signature = Sign(env.GITHUB_WEBHOOK_SECRET, req[p].body)
PastGate(p) == pc[p] \notin {"idle", "verify"}
Classified(p) == DidOk(p, "generateObject")
KeyOf(p) ==
    generateEventKey(analysis[p].repositoryName, analysis[p].version,
                     analysis[p].eventType)
\* the stages after classification
Downstream == {"kv.get", "generateText", "callDevinAPI", "kv.set"}

\* a delivery the specification calls valid, actionable and supported, all of
\* whose external calls worked: signed by GitHub (or bypass active), a release
\* or tag event of a supported repository, published if it is a release, with
\* no pre-release marker in its version
Actionable(p) ==
    /\ Classified(p)
    /\ analysis[p].isReleaseOrTagEvent /\ analysis[p].isSupported
    /\ analysis[p].eventType = "release" => req[p].body.action = "published"
    /\ ~ContainsNext(analysis[p].version)
GoodDelivery(p) ==
    /\ Done(p)
    /\ BypassActive \/ SignatureMatches(p)
    /\ Actionable(p)
    /\ ~Failed(p)

----------------------------------------------------------------------------
(* Properties *)

\* C1: sequential redelivery is idempotent.  Of the deliveries of one valid,
\* actionable, supported event made one after the other with every external
\* call working, the first (the ledger holds no entry for its key and the
\* dispatcher was never invoked for it) is answered success, after one
\* dispatcher invocation and with the key recorded; a later one (the key is
\* recorded, after one dispatcher invocation) is answered already_processed
\* and the dispatcher is not invoked again.
C1_SequentialIdempotence ==
    \A p \in Procs :
        GoodDelivery(p) =>
            /\ (KeyOf(p) \notin DOMAIN kv0[p]
                    /\ Count(dispatchCalls, KeyOf(p)) <= 1)
                => /\ Answered(p, "success")
                   /\ Count(dispatchCalls, KeyOf(p)) = 1
                   /\ KeyOf(p) \in DOMAIN kv
            /\ (KeyOf(p) \in DOMAIN kv0[p]
                    /\ Count(dispatchCalls, KeyOf(p)) = 1)
                => /\ Answered(p, "already_processed")
                   /\ ~Did(p, "callDevinAPI")

\* C2: the signature gate.  With the bypass not active, an invocation whose
\* signature header is absent or does not match the keyed hash of the raw
\* payload is answered error, and calls neither the classifier nor any
\* later stage.
C2_SignatureGate ==
    \A p \in Procs :
        (~BypassActive /\ PastGate(p) /\ ~SignatureMatches(p)) =>
            /\ Done(p)
            /\ Answered(p, "error")
            /\ \A c \in Downstream \cup {"req.data.object", "generateObject"} :
                  ~Did(p, c)
            /\ analysis[p] = NoAnalysis
            /\ kv = kv0[p]

C2_Witness ==
    \E p \in Procs :
        /\ ~BypassActive /\ Done(p)
        /\ req[p].signature # NoSignature
        /\ env.GITHUB_WEBHOOK_SECRET # Undefined
        /\ ~SignatureMatches(p)
        /\ responses[p] = <<[status |-> "error", message |-> "Invalid webhook signature"]>>

\* C3: the ledger is written only after a successful dispatch of the same
\* invocation.  While an invocation has not had a successful dispatch
\* followed by a ledger write, the ledger is as it was when the delivery
\* arrived; so it is when the invocation is answered ignored,
\* already_processed, or error without a successful dispatch; and after a
\* failed dispatch the answer is error and the ledger holds no entry for
\* the event's key.
C3_RecordOnlyAfterDispatch ==
    \A p \in Procs :
        /\ (pc[p] # "idle" /\ kv # kv0[p]) =>
              /\ DidOk(p, "callDevinAPI")
              /\ LastCall(p) = <<"kv.set", "ok">>
              /\ \A k \in DOMAIN kv0[p] : kv[k] = kv0[p][k]
              /\ DOMAIN kv = DOMAIN kv0[p] \cup {eventKey[p]}
        /\ (Done(p) /\ (Answered(p, "ignored") \/ Answered(p, "already_processed")
                          \/ (Answered(p, "error") /\ ~DidOk(p, "callDevinAPI"))))
              => kv = kv0[p]
        /\ (Did(p, "callDevinAPI") /\ ~DidOk(p, "callDevinAPI"))
              => /\ Done(p) /\ Answered(p, "error")
                 /\ eventKey[p] \notin DOMAIN kv

C3_Witness ==
    \E p \in Procs :
        /\ Done(p)
        /\ LastCall(p) = <<"callDevinAPI", "throw">>
        /\ responses[p] = <<[status |-> "error",
                              message |-> "Failed to call Devin API: Devin API returned 500: Internal Server Error"]>>
        /\ eventKey[p] \notin DOMAIN kv

\* C4: a failure of the ledger write after a successful dispatch does not
\* fail the pipeline: the invocation is answered success with the session
\* handle of the dispatch.
C4_WriteFailureIsSuccess ==
    \A p \in Procs :
        (Done(p) /\ DidOk(p, "callDevinAPI") /\ LastCall(p) = <<"kv.set", "throw">>) =>
            /\ Answered(p, "success")
            /\ responses[p][1].devinSessionId = devinResponse[p].sessionId

\* C5: the duplicate-dispatch window.  The dispatcher is invoked for a key at
\* most as often as deliveries arrived while the ledger held no entry for
\* the key (two, when two deliveries overlap and every other one starts
\* after one of them recorded the key); a delivery that starts after the key
\* is recorded does not dispatch and is answered already_processed.
C5_DuplicateWindow ==
    /\ \A k \in AllKeys : Count(dispatchCalls, k) <= arrivals[k]
    /\ \A p \in Procs :
          (eventKey[p] # Undefined /\ eventKey[p] \in DOMAIN kv0[p]) =>
              /\ ~Did(p, "generateText") /\ ~Did(p, "callDevinAPI")
              /\ Done(p) => Answered(p, "already_processed")

C5_Witness ==
    \E p \in Procs :
        /\ Done(p) /\ Answered(p, "already_processed")
        /\ eventKey[p] \in DOMAIN kv0[p]
        /\ dispatchCalls[eventKey[p]] = 2
        /\ arrivals[eventKey[p]] = 2
        /\ delivered = 3

\* C6: every invocation ends with exactly one response, whose status is one
\* of success, ignored, already_processed, error; a failure of the verifier,
\* the body parse, the classifier, the ledger, the synthesizer or the
\* dispatcher ends the invocation with an error response and never leaves
\* the handler as an unhandled fault.
C6_StructuredResponse ==
    \A p \in Procs :
        /\ pc[p] \in {"idle", "verify", "object", "generateObject", "kv.get",
                       "generateText", "callDevinAPI", "kv.set", "done"}
        /\ Done(p) => /\ Len(responses[p]) = 1
                       /\ responses[p][1].status \in Statuses
        /\ ~Done(p) => responses[p] = <<>>
        /\ Failed(p) => Done(p) /\ Answered(p, "error")

C6_Witness ==
    \E p \in Procs :
        /\ Done(p)
        /\ LastCall(p) = <<"generateObject", "throw">>
        /\ responses[p] = <<[status |-> "error", message |-> "generateObject failed"]>>

\* C7: the classification gate.  When the analysis says the event is not a
\* release or tag event, or the repository is not supported, the invocation
\* is answered ignored with the classifier's reasoning, and makes no ledger
\* lookup, no synthesis, no dispatch and no ledger write.
C7_ClassificationGate ==
    \A p \in Procs :
        (Classified(p) /\ ~(analysis[p].isReleaseOrTagEvent /\ analysis[p].isSupported)) =>
            /\ Done(p)
            /\ responses[p] = <<[status |-> "ignored", reason |-> analysis[p].reasoning]>>
            /\ \A c \in Downstream : ~Did(p, c)
            /\ kv = kv0[p]
            /\ eventKey[p] = Undefined

C7_Witness ==
    \E p \in Procs :
        /\ Done(p) /\ Classified(p)
        /\ analysis[p].isReleaseOrTagEvent /\ ~analysis[p].isSupported
        /\ Answered(p, "ignored")

\* C8: a release event whose action is not "published" is answered ignored,
\* whatever the ledger holds, and the dispatcher is not invoked for it.
C8_UnpublishedReleaseIgnored ==
    \A p \in Procs :
        (/\ Done(p)
         /\ BypassActive \/ SignatureMatches(p)
         /\ Classified(p) /\ ~Failed(p)
         /\ analysis[p].eventType = "release"
         /\ req[p].body.action # "published") =>
            /\ Answered(p, "ignored")
            /\ ~Did(p, "callDevinAPI")

\* C9: an event whose version string contains a pre-release marker ("-next")
\* is answered ignored, and no dispatch occurs.
C9_PreReleaseIgnored ==
    \A p \in Procs :
        (/\ Done(p)
         /\ BypassActive \/ SignatureMatches(p)
         /\ Classified(p) /\ ~Failed(p)
         /\ ContainsNext(analysis[p].version)) =>
            /\ Answered(p, "ignored")
            /\ ~Did(p, "callDevinAPI")

\* C10: the success scenario.  A signed, previously unseen, published release
\* of a supported repository, with every external call working, is answered
\* success with the repository, event type and version of the analysis and
\* a session handle, and afterwards the ledger holds one more entry, under
\* the key changelog-event:<repository>:<version>:<eventType>, whose session
\* handle is that of the response.
C10_SuccessScenario ==
    \A p \in Procs :
        (/\ GoodDelivery(p)
         /\ analysis[p].eventType = "release"
         /\ req[p].body.action = "published"
         /\ KeyOf(p) \notin DOMAIN kv0[p]) =>
            /\ responses[p] =
                  <<[status |-> "success",
                     repository |-> analysis[p].repositoryName,
                     eventType |-> analysis[p].eventType,
                     version |-> analysis[p].version,
                     devinSessionId |-> devinResponse[p].sessionId]>>
            /\ devinResponse[p].sessionId \notin {Undefined, ""}
            /\ DOMAIN kv = DOMAIN kv0[p] \cup {KeyOf(p)}
            /\ kv[KeyOf(p)].devinSessionId = devinResponse[p].sessionId

\* C11: the event key is a function of the repository name, the version and
\* the event type alone.  Two invocations whose analyses agree on these three
\* fields hold the same key, whatever the reasoning of the analysis and the
\* body of the request, and deriving the key again from the three fields of
\* an invocation's analysis gives the key the invocation holds.
SameTriple(a, b) ==
    /\ a.repositoryName = b.repositoryName
    /\ a.version = b.version
    /\ a.eventType = b.eventType
C11_EventKeyPure ==
    /\ \A p, q \in Procs :
          (eventKey[p] # Undefined /\ eventKey[q] # Undefined
                /\ SameTriple(analysis[p], analysis[q]))
              => eventKey[p] = eventKey[q]
    /\ \A p \in Procs : eventKey[p] # Undefined => eventKey[p] = KeyOf(p)

C11_Witness ==
    \E p, q \in Procs :
        /\ eventKey[p] # Undefined /\ eventKey[q] # Undefined
        /\ SameTriple(analysis[p], analysis[q])
        /\ analysis[p].reasoning # analysis[q].reasoning
        /\ req[p].body # req[q].body
        /\ eventKey[p] = "changelog-event:cli:v1.4.0-next:tag"

\* C12: the verification bypass is taken only under the development flag.
\* An invocation past the gate has not called the verifier exactly when
\* AGENTUITY_ENVIRONMENT is "development"; with the variable unset or of any
\* other value the verifier is the first call of the invocation, and the
\* classifier is called only after the verifier accepted the delivery.
C12_BypassOnlyInDevelopment ==
    \A p \in Procs :
        PastGate(p) =>
            /\ ~Did(p, "verifyGitHubWebhook")
                    <=> env.AGENTUITY_ENVIRONMENT = "development"
            /\ env.AGENTUITY_ENVIRONMENT # "development"
                    => /\ log[p][1][1] = "verifyGitHubWebhook"
                       /\ Did(p, "generateObject")
                            => log[p][1] = <<"verifyGitHubWebhook", "ok">>

C12_Witness ==
    \E p \in Procs :
        /\ env.AGENTUITY_ENVIRONMENT = Undefined
        /\ Classified(p)
        /\ log[p][1] = <<"verifyGitHubWebhook", "ok">>

\* C13: the outcome of the dispatcher.  When the Devin endpoint answers with
\* a status outside 200..299, the invocation ends with an error response
\* whose message carries the status code and the body of the answer, and
\* nothing is written to the ledger.  When it answers 200 without a
\* sessionId (absent or empty), the dispatch does not fail: the session
\* handle is "unknown", the ledger write is attempted, and when the write
\* returns, the success response and the ledger entry carry "unknown".  The
\* devinSessionId of a success response is never absent or empty.
NonSuccessMessages ==
    {"Failed to call Devin API: Devin API returned 500: Internal Server Error"}
C13_DispatcherOutcome ==
    \A p \in Procs :
        /\ (fetched[p].kind = "response" /\ fetched[p].status \notin 200..299)
              => /\ Done(p)
                 /\ LastCall(p) = <<"callDevinAPI", "throw">>
                 /\ Answered(p, "error")
                 /\ responses[p][1].message \in NonSuccessMessages
                 /\ kv = kv0[p]
        /\ (fetched[p].kind = "response" /\ fetched[p].status \in 200..299
                /\ fetched[p].sessionId \in {Undefined, ""})
              => /\ DidOk(p, "callDevinAPI")
                 /\ devinResponse[p].sessionId = "unknown"
                 /\ pc[p] = "kv.set" \/ Did(p, "kv.set")
                 /\ DidOk(p, "kv.set")
                      => /\ Answered(p, "success")
                         /\ responses[p][1].devinSessionId = "unknown"
                         /\ eventKey[p] \in DOMAIN kv
                         /\ kv[eventKey[p]].devinSessionId = "unknown"
        /\ Answered(p, "success")
              => responses[p][1].devinSessionId \notin {Undefined, ""}

C13_Witness ==
    \E p \in Procs :
        /\ fetched[p].status = 200 /\ fetched[p].sessionId = ""
        /\ Answered(p, "success")
        /\ responses[p][1].devinSessionId = "unknown"
        /\ kv[eventKey[p]].devinSessionId = "unknown"
        /\ \E k \in DOMAIN dispatchCalls : k # eventKey[p] /\ k \notin DOMAIN kv

\* what the verifier said of the delivery of an invocation that called it:
\* "success", or the message of its failure
VerifierSaid(p) ==
    IF log[p][1] = <<"verifyGitHubWebhook", "ok">> THEN "success"
    ELSE responses[p][1].message
VerifierRan(p) == ~BypassActive /\ PastGate(p)
HashDiffers(p) == req[p].signature # Sign(env.GITHUB_WEBHOOK_SECRET, req[p].body)

\* C14 as stated: the result of the verifier is MissingSignature when the
\* header is absent (whether or not the secret is configured), MissingSecret
\* when the header is present and the secret is not configured,
\* SignatureMismatch when both are present and the keyed hash differs, and
\* success otherwise; the verifier never writes to the ledger.
C14_VerifierResult ==
    \A p \in Procs :
        VerifierRan(p) =>
            /\ VerifierSaid(p) =
                  IF req[p].signature = NoSignature
                  THEN "Missing X-Hub-Signature-256 header"
                  ELSE IF env.GITHUB_WEBHOOK_SECRET = Undefined
                  THEN "Server configuration error: webhook secret not configured"
                  ELSE IF HashDiffers(p)
                  THEN "Invalid webhook signature"
                  ELSE "success"
            /\ Len(log[p]) = 1 => kv = kv0[p]

\* C14, amended: as above, except that with the header present and the
\* secret configured the verifier fails with "Error verifying webhook
\* signature" when the computation of the hash throws, which it does for an
\* empty payload, whether or not the signature is the keyed hash of the
\* payload; it fails with SignatureMismatch when the hash is computed and
\* differs, and succeeds when it is computed and equal.
C14_VerifierResultOrError ==
    \A p \in Procs :
        VerifierRan(p) =>
            /\ VerifierSaid(p) =
                  IF req[p].signature = NoSignature
                  THEN "Missing X-Hub-Signature-256 header"
                  ELSE IF env.GITHUB_WEBHOOK_SECRET = Undefined
                  THEN "Server configuration error: webhook secret not configured"
                  ELSE IF req[p].body.kind = "empty"
                  THEN "Error verifying webhook signature"
                  ELSE IF HashDiffers(p)
                  THEN "Invalid webhook signature"
                  ELSE "success"
            /\ Len(log[p]) = 1 => kv = kv0[p]

C14_Witness ==
    \E p \in Procs :
        /\ VerifierRan(p)
        /\ req[p].body.kind = "empty"
        /\ env.GITHUB_WEBHOOK_SECRET = TrustedSecret
        /\ req[p].signature = Sign(TrustedSecret, req[p].body)
        /\ VerifierSaid(p) = "Error verifying webhook signature"
        /\ kv # EmptyStore /\ kv = kv0[p]

\* an earlier invocation for the key of p ended in an error of generateText
\* or callDevinAPI, and none has ended in success
OnlyFailedBefore(p) ==
    /\ <<eventKey[p], "failed">> \in ended
    /\ <<eventKey[p], "success">> \notin ended
\* the body passes the published check, as that of the failed attempt did
PassesPublishedCheck(p) ==
    analysis[p].eventType = "release" => payloadAction(req[p].body) = "published"

\* C15: a failed dispatch does not block a later attempt.  When the ledger
\* lookup of an invocation returns, for a key whose earlier invocations
\* ended in an error of the synthesizer or the dispatcher and never in
\* success, the invocation is not answered already_processed but goes on to
\* synthesis; and an invocation that went on to synthesis with every
\* external call working has dispatched, recorded the key and is answered
\* success.
C15_FailedDispatchDoesNotBlock ==
    /\ [][\A p \in Procs :
              (pc[p] = "kv.get" /\ log'[p] = Append(log[p], <<"kv.get", "ok">>)
                    /\ OnlyFailedBefore(p) /\ PassesPublishedCheck(p))
                  => pc'[p] = "generateText"]_vars
    /\ [](\A p \in Procs :
              (Done(p) /\ DidOk(p, "generateText") /\ ~Failed(p))
                  => /\ Answered(p, "success")
                     /\ DidOk(p, "callDevinAPI")
                     /\ eventKey[p] \in DOMAIN kv)

C15_Witness ==
    \E p \in Procs :
        /\ Done(p) /\ ~Failed(p)
        /\ <<eventKey[p], "failed">> \in ended
        /\ eventKey[p] \notin DOMAIN kv0[p]
        /\ Answered(p, "success")
        /\ dispatchCalls[eventKey[p]] = 2

\* the external calls of the handler in the order of its text; the verifier
\* is not among them when the bypass is active
Stages ==
    IF BypassActive
    THEN <<"req.data.object", "generateObject", "kv.get", "generateText",
           "callDevinAPI", "kv.set">>
    ELSE <<"verifyGitHubWebhook", "req.data.object", "generateObject", "kv.get",
           "generateText", "callDevinAPI", "kv.set">>
\* the calls of p are the first stages in order, each made once, and every
\* call but the last returned
InStageOrder(p) ==
    /\ Len(log[p]) <= Len(Stages)
    /\ \A i \in DOMAIN log[p] :
          /\ log[p][i][1] = Stages[i]
          /\ i < Len(log[p]) => log[p][i][2] = "ok"

\* C16: the order of the stages within one invocation.  The calls of an
\* invocation follow the order verifier (unless bypassed), body, classifier,
\* lookup, synthesizer, dispatcher, ledger write, each made at most once and
\* only after the one before it returned.  The dispatcher is called only for
\* an analysis with both flags set, whose key the ledger did not hold, and
\* with the text the synthesizer returned; the ledger is changed at most
\* once, at the key of the invocation, by the write that follows the
\* dispatch.
C16_StageOrder ==
    \A p \in Procs :
        /\ InStageOrder(p)
        /\ Did(p, "callDevinAPI")
              => /\ analysis[p].isReleaseOrTagEvent /\ analysis[p].isSupported
                 /\ eventKey[p] \notin DOMAIN kv0[p]
                 /\ devinPrompt[p] # Undefined
        /\ (pc[p] # "idle" /\ kv # kv0[p])
              => /\ LastCall(p) = <<"kv.set", "ok">>
                 /\ DOMAIN kv = DOMAIN kv0[p] \cup {eventKey[p]}
                 /\ \A k \in DOMAIN kv0[p] : kv[k] = kv0[p][k]

C16_Witness ==
    \E p \in Procs :
        /\ ~BypassActive
        /\ Len(log[p]) = Len(Stages)
        /\ LastCall(p) = <<"kv.set", "ok">>
        /\ kv0[p] # EmptyStore
        /\ kv # kv0[p]

C18_SynthesisFailureAborts ==
    \A p \in Procs :
        (devinPrompt[p] = ""
            \/ \E i \in DOMAIN log[p] : log[p][i] = <<"generateText", "throw">>)
          => /\ ~Did(p, "callDevinAPI")
             /\ kv = kv0[p]
             /\ Done(p) => Answered(p, "error")

\* C19: a failure of the ledger lookup is fatal.  An invocation whose
\* ctx.kv.get call threw has ended with an error response, has called
\* neither the synthesizer nor the dispatcher nor ctx.kv.set, and has left
\* the ledger as it was.
C19_StoreReadFailureFatal ==
    \A p \in Procs :
        (\E i \in DOMAIN log[p] : log[p][i] = <<"kv.get", "throw">>)
          => /\ Done(p)
             /\ Answered(p, "error")
             /\ responses[p][1].message = "kv.get failed"
             /\ \A c \in {"generateText", "callDevinAPI", "kv.set"} : ~Did(p, c)
             /\ devinPrompt[p] = Undefined
             /\ kv = kv0[p]

C19_Witness ==
    \E p \in Procs :
        /\ Done(p)
        /\ LastCall(p) = <<"kv.get", "throw">>
        /\ Answered(p, "error")
        /\ eventKey[p] \in DOMAIN kv0[p]

\* a step of invocation p between its arrival and its response
Proceeds(p) ==
    \/ Verify(p) \/ ParseBody(p) \/ Classify(p, RaceAnalyses) \/ KvGet(p)
    \/ GenerateText(p, RaceTexts) \/ CallDevin(p, RaceReplies)
    \/ KvSetThrows(p) \/ KvSet(p)
\* the state of slot q is the same after the step
SlotUnchanged(q) ==
    /\ promptVersion'[q] = promptVersion[q]
    /\ pc'[q] = pc[q] /\ req'[q] = req[q] /\ analysis'[q] = analysis[q]
    /\ eventKey'[q] = eventKey[q] /\ devinPrompt'[q] = devinPrompt[q]
    /\ devinResponse'[q] = devinResponse[q] /\ responses'[q] = responses[q]
    /\ log'[q] = log[q] /\ kv0'[q] = kv0[q] /\ fetched'[q] = fetched[q]
\* the ledger entry and the dispatch count of key k are the same after the step
KeyUnchanged(k) ==
    /\ k \in DOMAIN kv' <=> k \in DOMAIN kv
    /\ k \in DOMAIN kv => kv'[k] = kv[k]
    /\ Count(dispatchCalls', k) = Count(dispatchCalls, k)
\* no other invocation has to do with the key of p: none in progress holds
\* it, the ledger did not hold it when p arrived, and the dispatcher was
\* called for it by p alone
AloneOnKey(p) ==
    /\ eventKey[p] # Undefined
    /\ \A q \in Procs \ {p} : eventKey[q] # eventKey[p]
    /\ eventKey[p] \notin DOMAIN kv0[p]
    /\ Count(dispatchCalls, eventKey[p]) = IF Did(p, "callDevinAPI") THEN 1 ELSE 0

\* C20: invocations for distinct events are independent.  A step of one
\* invocation changes no other invocation's state, and changes the ledger
\* entry and the dispatch count of no key but its own.  So an invocation
\* alone on its key, however it is interleaved with invocations for other
\* keys, ends as it would by itself: never already_processed; with success,
\* one dispatch and its own record in the ledger when its calls worked; with
\* error and no record when its dispatch or its write failed.  An invocation
\* in progress can always take its next step, whatever call another
\* invocation is waiting on.
C20_Independence ==
    /\ [][\A p \in Procs :
              pc'[p] # pc[p]
                => /\ \A q \in Procs \ {p} : SlotUnchanged(q)
                   /\ \A k \in AllKeys \ {eventKey[p]} : KeyUnchanged(k)]_vars
    /\ [](\A p \in Procs :
              /\ pc[p] \notin {"idle", "done"} => ENABLED Proceeds(p)
              /\ (Done(p) /\ AloneOnKey(p))
                    => /\ ~Answered(p, "already_processed")
                       /\ ~Failed(p)
                            => /\ Answered(p, "success")
                               /\ Did(p, "callDevinAPI")
                               /\ eventKey[p] \in DOMAIN kv
                               /\ kv[eventKey[p]].devinSessionId
                                      = responses[p][1].devinSessionId
                       /\ Failed(p)
                            => /\ Answered(p, "error")
                               /\ eventKey[p] \notin DOMAIN kv)

C20_Witness ==
    /\ delivered = 2
    /\ pc[1] = "callDevinAPI"
    /\ Done(2) /\ Answered(2, "success")
    /\ AloneOnKey(1) /\ AloneOnKey(2)
    /\ DOMAIN kv = {eventKey[2]}

\* the state of the orchestrator's state machine invocation p is in: None
\* when the slot holds no invocation; Received before the signature gate;
\* Verified from the gate to the classifier's answer; Classified with the
\* analysis in hand, up to the answer of the ledger lookup; Dispatching from
\* synthesis to the ledger write; and, once responded, the terminal state
\* of the response's status
StateOf(position, answers) ==
    IF position = "idle" THEN "None"
    ELSE IF position = "verify" THEN "Received"
    ELSE IF position \in {"object", "generateObject"} THEN "Verified"
    ELSE IF position \in {"kv.get", "hung"} THEN "Classified"
    ELSE IF position \in {"generateText", "callDevinAPI", "kv.set"} THEN "Dispatching"
    ELSE IF answers = <<>> THEN "Faulted"
    ELSE IF answers[1].status = "success" THEN "Completed"
    ELSE IF answers[1].status = "ignored" THEN "Ignored"
    ELSE IF answers[1].status = "already_processed" THEN "DuplicateSkipped"
    ELSE "Failed"
TerminalStates == {"Ignored", "DuplicateSkipped", "Completed", "Failed"}
\* the edges of the state machine as the specification gives them
StatedEdges ==
    { <<"Received", "Verified">>, <<"Verified", "Classified">>,
      <<"Classified", "Ignored">>, <<"Classified", "DuplicateSkipped">>,
      <<"Classified", "Dispatching">>,
      <<"Dispatching", "Completed">>, <<"Dispatching", "Failed">>,
      <<"Received", "Failed">>, <<"Verified", "Failed">> }
\* a step of invocation p follows the edges: it stays in its state, takes an
\* edge, or takes the two edges from Verified through Classified at once
\* when the classifier's answer is tested in the step that receives it; an
\* invocation begins in Received, and a terminal state is left only when
\* the invocation is over and its slot is freed
FollowsEdges(p, edges) ==
    LET from == StateOf(pc[p], responses[p])
        to == StateOf(pc'[p], responses'[p])
    IN  \/ from = to /\ (from \in TerminalStates => responses'[p] = responses[p])
        \/ <<from, to>> \in edges
        \/ /\ from = "Verified" /\ analysis'[p] # NoAnalysis
           /\ <<"Verified", "Classified">> \in edges /\ <<"Classified", to>> \in edges
        \/ from = "None" /\ to = "Received"
        \/ from \in TerminalStates /\ to = "None" /\ pc[p] = "done"
\* an invocation in progress eventually reaches a terminal state, with
\* exactly one response
Terminates(p) ==
    (pc[p] # "idle") ~> (StateOf(pc[p], responses[p]) \in TerminalStates)
OneResponse(p) ==
    /\ Len(responses[p]) <= 1
    /\ StateOf(pc[p], responses[p]) \in TerminalStates <=> Len(responses[p]) = 1

\* C21 as stated: each invocation moves only along the edges Received ->
\* Verified -> Classified -> {Ignored, DuplicateSkipped, Dispatching} ->
\* {Completed, Failed}, with Failed also reachable from Received and
\* Verified; terminal states are never left; and, every external call
\* eventually returning or failing, every invocation eventually reaches
\* exactly one terminal state.
C21_StateMachine ==
    /\ [][\A p \in Procs : FollowsEdges(p, StatedEdges)]_vars
    /\ [](\A p \in Procs : OneResponse(p))
    /\ \A p \in Procs : Terminates(p)

\* C21, amended: as above, with Failed reachable from Classified as well,
\* which is the edge an invocation takes when the ledger lookup fails.
C21_StateMachineWithLookupFailure ==
    /\ [][\A p \in Procs :
              FollowsEdges(p, StatedEdges \cup {<<"Classified", "Failed">>})]_vars
    /\ [](\A p \in Procs : OneResponse(p))
    /\ \A p \in Procs : Terminates(p)

C21_Witness ==
    \E p, q \in Procs :
        /\ StateOf(pc[p], responses[p]) = "Failed"
        /\ LastCall(p) = <<"kv.get", "throw">>
        /\ StateOf(pc[q], responses[q]) = "Dispatching"
        /\ delivered = LiveDeliveries

\* the repository, version and event type of a ledger entry are those of
\* the analysis
SameEvent(record, a) ==
    /\ record.repository = a.repositoryName
    /\ record.version = a.version
    /\ record.eventType = a.eventType

\* C22: the event key distinguishes distinct events.  The key of an
\* invocation differs from the key of every ledger entry that differs from
\* its analysis in repository name, version or event type, so an invocation
\* answered already_processed found the entry of its own event.
C22_KeysDistinguish ==
    \A p \in Procs :
        eventKey[p] # Undefined =>
            /\ \A k \in DOMAIN kv0[p] :
                  ~SameEvent(kv0[p][k], analysis[p]) => k # eventKey[p]
            /\ Answered(p, "already_processed")
                  => SameEvent(kv0[p][eventKey[p]], analysis[p])

\* a delivery of an event without a version, past every gate
Unversioned(p) ==
    /\ Done(p) /\ Classified(p)
    /\ analysis[p].version = ""
    /\ PassesPublishedCheck(p)

====
